---- MODULE Spec2Model ----
(***************************************************************************)
(* The ledger store of the earnings tracker (lib/storage.ts) and the       *)
(* balance arithmetic it calls (lib/calculations.ts).                      *)
(*                                                                         *)
(* The persisted record array (localStorage key earnings_records) is the   *)
(* sequence `store`, kept in the order the last write left it in.  Dates   *)
(* are YYYY-MM-DD strings in the code; they are compared only with         *)
(* localeCompare, < and <=, so they are modelled as three days, the        *)
(* integers 1, 2 and 3, with the same order.  `readable` tells whether the *)
(* text under that key is one JSON.parse accepts; `store` is then the      *)
(* array last written.                                                     *)
(***************************************************************************)
EXTENDS Integers, Sequences, FiniteSets, TLC

VARIABLES store, settings, nextId, ops, lastOp, readable, calls

vars == <<store, settings, nextId, ops, lastOp, readable, calls>>

(***************************************************************************)
(* Bounds of the model and the input domains of the operations.            *)
(***************************************************************************)
MaxId == 3
MaxOps == 3

Dates == {1, 2, 3}
Earnings == {150, 200}
AdvanceUsed == {0, 50}
AnchorAmounts == {1000}
AdvanceBalances == {0, 500}

\* The drafts the entry form and the chat assistant build: advanceUsed is
\* always 0 there ("No advance used in the simple flow"); a nonzero
\* advanceUsed enters a record through a patch.  The drafts here are those
\* of a day without bookings: totalEarnings = inquiryPay = basePay.
draftOf(d, e) ==
  [date |-> d, basePay |-> e, bookings |-> 0, bookingPay |-> 0,
   inquiryPay |-> e, totalEarnings |-> e, advanceUsed |-> 0, notes |-> ""]

Drafts == {draftOf(d, e) : d \in Dates, e \in Earnings}

\* A patch defines any subset of date, totalEarnings and advanceUsed, or
\* notes alone: notes never enters the arithmetic, so a patch that defines
\* notes together with other fields recomputes as the same patch without it.
PatchesOn(S) ==
  {[f \in S |-> [date |-> d, totalEarnings |-> e, advanceUsed |-> a,
                 notes |-> "edited"][f]] :
     d \in (IF "date" \in S THEN Dates ELSE {1}),
     e \in (IF "totalEarnings" \in S THEN Earnings ELSE {0}),
     a \in (IF "advanceUsed" \in S THEN AdvanceUsed ELSE {0})}

Patches ==
  UNION {PatchesOn(S) :
           S \in (SUBSET {"date", "totalEarnings", "advanceUsed"}) \cup {{"notes"}}}

(***************************************************************************)
(* lib/calculations.ts                                                     *)
(***************************************************************************)
\* Both terms applied whatever advanceUsedToday is.
calculateRemaining_symmetric(prevRemaining, advanceUsedToday, totalEarnedToday) ==
  prevRemaining - advanceUsedToday + totalEarnedToday

\* The earnings subtracted whatever advanceUsedToday is.
calculateRemaining_earningsOnly(prevRemaining, advanceUsedToday, totalEarnedToday) ==
  prevRemaining - totalEarnedToday

calculateRemaining(prevRemaining, advanceUsedToday, totalEarnedToday) ==
  IF advanceUsedToday = 0
    THEN prevRemaining - totalEarnedToday
    ELSE prevRemaining - advanceUsedToday + totalEarnedToday

\* The guard on negative bookings left out.
calculateBookingPay_unguarded(bookings, perBookingArg) ==
  bookings * (IF perBookingArg = <<>> THEN 50 ELSE perBookingArg[1])

\* perBookingArg is the optional second argument: <<>> when omitted (the
\* default 50 applies), <<r>> when given.
calculateBookingPay(bookings, perBookingArg) ==
  LET perBooking == IF perBookingArg = <<>> THEN 50 ELSE perBookingArg[1]
  IN IF bookings < 0 THEN 0 ELSE bookings * perBooking

(***************************************************************************)
(* formatCurrency and parseCurrency.  Amounts are counted in centavos, so  *)
(* 100050 is 1000.50.  A string is a sequence of its characters; the       *)
(* characters outside ASCII are written by their code points: "U+20B1" is  *)
(* the peso sign Intl.NumberFormat('en-PH', currency PHP) puts out, and    *)
(* "U+00E2", "U+201A", "U+00B1" are the three characters the source text   *)
(* of parseCurrency's regular expression holds before the comma and \s.    *)
(***************************************************************************)
DigitChars == <<"0", "1", "2", "3", "4", "5", "6", "7", "8", "9">>

RECURSIVE digitsOf(_)
digitsOf(n) ==
  IF n < 10 THEN <<DigitChars[n + 1]>>
  ELSE digitsOf(n \div 10) \o <<DigitChars[(n % 10) + 1]>>

RECURSIVE grouped(_)
grouped(digits) ==
  IF Len(digits) <= 3 THEN digits
  ELSE grouped(SubSeq(digits, 1, Len(digits) - 3))
         \o <<",">> \o SubSeq(digits, Len(digits) - 2, Len(digits))

formatCurrency(amount) ==
  LET abs == IF amount < 0 THEN -amount ELSE amount
  IN (IF amount < 0 THEN <<"-">> ELSE <<>>)
       \o <<"U+20B1">>
       \o grouped(digitsOf(abs \div 100))
       \o <<".">>
       \o <<DigitChars[((abs % 100) \div 10) + 1], DigitChars[(abs % 10) + 1]>>

\* The character class of line 74 as the source file holds it.
strippedChars == {"U+00E2", "U+201A", "U+00B1", ",", " "}

cleanedOf(currencyStr) ==
  SelectSeq(currencyStr, LAMBDA ch : ch \notin strippedChars)

isDigit(ch) == \E d \in 1..10 : DigitChars[d] = ch

digitValue(ch) == (CHOOSE d \in 1..10 : DigitChars[d] = ch) - 1

\* The first position at or after i of str that holds no digit.
RECURSIVE digitsEnd(_, _)
digitsEnd(str, i) ==
  IF i <= Len(str) /\ isDigit(str[i]) THEN digitsEnd(str, i + 1) ELSE i

RECURSIVE valueOf(_)
valueOf(digits) ==
  IF digits = <<>> THEN 0
  ELSE 10 * valueOf(SubSeq(digits, 1, Len(digits) - 1))
         + digitValue(digits[Len(digits)])

\* parseFloat: the longest prefix that is a sign, digits, a point and
\* digits; NaN when that prefix holds no digit.  The value is in centavos
\* (the strings here have at most two digits after the point).
parseFloat(str) ==
  LET signed == Len(str) >= 1 /\ str[1] \in {"-", "+"}
      start == IF signed THEN 2 ELSE 1
      intEnd == digitsEnd(str, start)
      hasPoint == intEnd <= Len(str) /\ str[intEnd] = "."
      fracEnd == IF hasPoint THEN digitsEnd(str, intEnd + 1) ELSE intEnd
      intDigits == SubSeq(str, start, intEnd - 1)
      fracDigits == IF hasPoint THEN SubSeq(str, intEnd + 1, fracEnd - 1) ELSE <<>>
      tenths == IF Len(fracDigits) >= 1 THEN digitValue(fracDigits[1]) ELSE 0
      hundredths == IF Len(fracDigits) >= 2 THEN digitValue(fracDigits[2]) ELSE 0
      magnitude == 100 * valueOf(intDigits) + 10 * tenths + hundredths
  IN [isNaN |-> intDigits = <<>> /\ fracDigits = <<>>,
      value |-> IF signed /\ str[1] = "-" THEN -magnitude ELSE magnitude]

parseCurrency(currencyStr) ==
  LET parsed == parseFloat(cleanedOf(currencyStr))
  IN IF parsed.isNaN THEN 0 ELSE parsed.value

(***************************************************************************)
(* Array.prototype.sort is stable: records with equal dates keep their     *)
(* relative order.  sortDesc is sort((a, b) => b.date.localeCompare(a.date))*)
(* and sortAsc is sort((a, b) => a.date.localeCompare(b.date)).            *)
(***************************************************************************)
RECURSIVE insertDesc(_, _)
insertDesc(sorted, x) ==
  IF sorted = <<>> THEN <<x>>
  ELSE IF Head(sorted).date < x.date THEN <<x>> \o sorted
  ELSE <<Head(sorted)>> \o insertDesc(Tail(sorted), x)

RECURSIVE sortDescFrom(_, _)
sortDescFrom(s, acc) ==
  IF s = <<>> THEN acc ELSE sortDescFrom(Tail(s), insertDesc(acc, Head(s)))

sortDesc(s) == sortDescFrom(s, <<>>)

\* An insertion that puts a record before the records of its own date: the
\* sort it builds is not stable.
RECURSIVE insertAsc_unstable(_, _)
insertAsc_unstable(sorted, x) ==
  IF sorted = <<>> THEN <<x>>
  ELSE IF Head(sorted).date >= x.date THEN <<x>> \o sorted
  ELSE <<Head(sorted)>> \o insertAsc_unstable(Tail(sorted), x)

RECURSIVE insertAsc(_, _)
insertAsc(sorted, x) ==
  IF sorted = <<>> THEN <<x>>
  ELSE IF Head(sorted).date > x.date THEN <<x>> \o sorted
  ELSE <<Head(sorted)>> \o insertAsc(Tail(sorted), x)

RECURSIVE sortAscFrom(_, _)
sortAscFrom(s, acc) ==
  IF s = <<>> THEN acc ELSE sortAscFrom(Tail(s), insertAsc(acc, Head(s)))

sortAsc(s) == sortAscFrom(s, <<>>)

(***************************************************************************)
(* Reads.  findIndex is 1-based here, 0 when no element matches (-1 in the *)
(* code).  getInitialAdvanceRecord returns the record or null: a sequence  *)
(* of length 1 or 0.                                                       *)
(***************************************************************************)
listRecords_ascending(stored) == sortAsc(stored)

listRecords(stored) == sortDesc(stored)

isAnchor(r) == r.isInitialAdvance

findIndex(records, id) ==
  IF \E i \in 1..Len(records) : records[i].id = id
    THEN CHOOSE i \in 1..Len(records) :
           /\ records[i].id = id
           /\ \A j \in 1..(i - 1) : records[j].id # id
    ELSE 0

getInitialAdvanceRecord(stored) ==
  LET records == listRecords(stored)
      found == SelectSeq(records, isAnchor)
  IN IF found = <<>> THEN <<>> ELSE <<found[1]>>

getSettings_defaults(st) == [advanceBalance |-> 0]

getSettings(st) == st

generateId(n) == n

(***************************************************************************)
(* saveRecord: the starting balance of a new record (lines 150-182) and    *)
(* the array it writes (lines 184-192).  A draft carries date,             *)
(* totalEarnings, advanceUsed and notes; its remaining is overwritten.     *)
(***************************************************************************)
mostRecentOf(previousRecords) == sortDesc(previousRecords)[1]

previousBalance(records, initialAdvance, record, st) ==
  IF initialAdvance # <<>>
    THEN LET previousRecords ==
               SelectSeq(records,
                         LAMBDA r : r.date < record.date /\ ~r.isInitialAdvance)
         IN IF Len(previousRecords) > 0
              THEN mostRecentOf(previousRecords).remaining
              ELSE initialAdvance[1].remaining
    ELSE LET previousRecords ==
               SelectSeq(records, LAMBDA r : r.date < record.date)
         IN IF Len(previousRecords) > 0
              THEN mostRecentOf(previousRecords).remaining
              ELSE getSettings(st).advanceBalance

saveRecord_shifting(stored, record, st, id) ==
  LET records == listRecords(stored)
      initialAdvance == getInitialAdvanceRecord(stored)
      prevRemaining == previousBalance(records, initialAdvance, record, st)
      newRecord == [id |-> id,
                    date |-> record.date,
                    basePay |-> record.basePay,
                    bookings |-> record.bookings,
                    bookingPay |-> record.bookingPay,
                    inquiryPay |-> record.inquiryPay,
                    totalEarnings |-> record.totalEarnings,
                    advanceUsed |-> record.advanceUsed,
                    remaining |-> calculateRemaining(prevRemaining,
                                                     record.advanceUsed,
                                                     record.totalEarnings),
                    notes |-> record.notes,
                    isInitialAdvance |-> FALSE]
      shifted == [i \in 1..Len(records) |->
                    IF records[i].date > record.date /\ ~records[i].isInitialAdvance
                      THEN [records[i] EXCEPT !.remaining =
                              calculateRemaining(@, record.advanceUsed,
                                                 record.totalEarnings)]
                      ELSE records[i]]
  IN Append(shifted, newRecord)

\* Lines 184-189: the draft's fields, the id and the computed remaining.
newRecordOf(records, initialAdvance, record, st, id) ==
  [id |-> id,
   date |-> record.date,
   basePay |-> record.basePay,
   bookings |-> record.bookings,
   bookingPay |-> record.bookingPay,
   inquiryPay |-> record.inquiryPay,
   totalEarnings |-> record.totalEarnings,
   advanceUsed |-> record.advanceUsed,
   remaining |-> calculateRemaining(
                   previousBalance(records, initialAdvance, record, st),
                   record.advanceUsed, record.totalEarnings),
   notes |-> record.notes,
   isInitialAdvance |-> FALSE]

saveRecord(stored, record, st, id) ==
  LET records == listRecords(stored)
      initialAdvance == getInitialAdvanceRecord(stored)
  IN Append(records, newRecordOf(records, initialAdvance, record, st, id))

(***************************************************************************)
(* updateRecord.  mergePatch is { ...records[index], ...patch }; a patch   *)
(* is a function whose domain is the set of fields it defines.             *)
(***************************************************************************)
mergePatch(r, patch) ==
  [f \in DOMAIN r |-> IF f \in DOMAIN patch THEN patch[f] ELSE r[f]]

isFinancial(patch) ==
  \/ "advanceUsed" \in DOMAIN patch
  \/ "totalEarnings" \in DOMAIN patch
  \/ "date" \in DOMAIN patch

\* The starting balance of sortedRecords[i] in the loop of lines 232-276.
updateStart(sortedRecords, i, initialAdvance, st) ==
  LET cur == sortedRecords[i]
  IN IF i = 1 \/ (initialAdvance # <<>> /\ cur.date <= initialAdvance[1].date)
       THEN IF initialAdvance # <<>>
              THEN initialAdvance[1].remaining
              ELSE getSettings(st).advanceBalance
       ELSE LET prevRecords ==
                  SelectSeq(SubSeq(sortedRecords, 1, i - 1),
                            LAMBDA r : ~r.isInitialAdvance \/ r.date <= cur.date)
            IN IF Len(prevRecords) > 0
                 THEN prevRecords[Len(prevRecords)].remaining
                 ELSE IF initialAdvance # <<>>
                        THEN initialAdvance[1].remaining
                        ELSE getSettings(st).advanceBalance

\* A cascade that restamps the edited record and stops there.
updateCascade_targetOnly(sortedRecords, i, initialAdvance, st) ==
  IF i > Len(sortedRecords) \/ sortedRecords[i].isInitialAdvance
    THEN sortedRecords
    ELSE [sortedRecords EXCEPT ![i].remaining =
            calculateRemaining(updateStart(sortedRecords, i, initialAdvance, st),
                               sortedRecords[i].advanceUsed,
                               sortedRecords[i].totalEarnings)]

\* A cascade that treats the anchor as one more link of the chain: its
\* remaining is taken over from the element before it.
RECURSIVE updateCascade_chainAnchor(_, _, _, _)
updateCascade_chainAnchor(sortedRecords, i, initialAdvance, st) ==
  IF i > Len(sortedRecords) THEN sortedRecords
  ELSE IF sortedRecords[i].isInitialAdvance
    THEN updateCascade_chainAnchor(
           IF i > 1
             THEN [sortedRecords EXCEPT ![i].remaining = sortedRecords[i - 1].remaining]
             ELSE sortedRecords,
           i + 1, initialAdvance, st)
    ELSE updateCascade_chainAnchor(
           [sortedRecords EXCEPT ![i].remaining =
              calculateRemaining(updateStart(sortedRecords, i, initialAdvance, st),
                                 sortedRecords[i].advanceUsed,
                                 sortedRecords[i].totalEarnings)],
           i + 1, initialAdvance, st)

RECURSIVE updateCascade(_, _, _, _)
updateCascade(sortedRecords, i, initialAdvance, st) ==
  IF i > Len(sortedRecords) THEN sortedRecords
  ELSE IF sortedRecords[i].isInitialAdvance
    THEN updateCascade(sortedRecords, i + 1, initialAdvance, st)
    ELSE updateCascade(
           [sortedRecords EXCEPT ![i].remaining =
              calculateRemaining(updateStart(sortedRecords, i, initialAdvance, st),
                                 sortedRecords[i].advanceUsed,
                                 sortedRecords[i].totalEarnings)],
           i + 1, initialAdvance, st)

\* One pass of the loop body of lines 232-276.
updateIteration(sortedRecords, i, initialAdvance, st) ==
  IF sortedRecords[i].isInitialAdvance
    THEN sortedRecords
    ELSE [sortedRecords EXCEPT ![i].remaining =
            calculateRemaining(updateStart(sortedRecords, i, initialAdvance, st),
                               sortedRecords[i].advanceUsed,
                               sortedRecords[i].totalEarnings)]

\* Lines 217-285: the record is found at records[index].
updateFound(stored, records, index, id, patch, st) ==
  LET updated == mergePatch(records[index], patch)
  IN IF isFinancial(patch)
       THEN LET sortedRecords == sortAsc([records EXCEPT ![index] = updated])
                recordIndex == findIndex(sortedRecords, id)
                initialAdvance == getInitialAdvanceRecord(stored)
            IN [res |-> "ok",
                store |-> updateCascade(sortedRecords, recordIndex,
                                        initialAdvance, st)]
       ELSE [res |-> "ok", store |-> [records EXCEPT ![index] = updated]]

\* An updateRecord without the not-found check: the sorted array is
\* written back and the call succeeds.
updateRecord_missingCheck(stored, id, patch, st) ==
  LET records == listRecords(stored)
      index == findIndex(records, id)
  IN IF index = 0
       THEN [res |-> "ok", store |-> records]
       ELSE updateFound(stored, records, index, id, patch, st)

\* The outcome of updateRecord: the error thrown (or "ok") and the array
\* left in storage.
updateRecord(stored, id, patch, st) ==
  LET records == listRecords(stored)
      index == findIndex(records, id)
  IN IF index = 0
       THEN [res |-> "NotFound", store |-> stored]
       ELSE updateFound(stored, records, index, id, patch, st)

(***************************************************************************)
(* deleteRecord.  It never throws: an id that matches nothing leaves       *)
(* `filtered` equal to `records`, and the recompute and the write follow   *)
(* all the same.                                                           *)
(***************************************************************************)
\* A deleteRecord that forgets that the record it deleted was the anchor.
isDeletedInitialAdvance_ignored(records, id) == FALSE

isDeletedInitialAdvance(records, id) ==
  LET index == findIndex(records, id)
  IN index # 0 /\ records[index].isInitialAdvance

\* The starting balance of sortedFiltered[i] in the loop of lines 310-354;
\* useAnchor is (initialAdvance && !isDeletedInitialAdvance).
deleteStart(sortedFiltered, i, initialAdvance, useAnchor, st) ==
  LET cur == sortedFiltered[i]
  IN IF i = 1 \/ (useAnchor /\ cur.date <= initialAdvance[1].date)
       THEN IF useAnchor
              THEN initialAdvance[1].remaining
              ELSE getSettings(st).advanceBalance
       ELSE LET prevRecords ==
                  SelectSeq(SubSeq(sortedFiltered, 1, i - 1),
                            LAMBDA r : ~r.isInitialAdvance \/ r.date <= cur.date)
            IN IF Len(prevRecords) > 0
                 THEN prevRecords[Len(prevRecords)].remaining
                 ELSE IF useAnchor
                        THEN initialAdvance[1].remaining
                        ELSE getSettings(st).advanceBalance

RECURSIVE deleteCascade(_, _, _, _, _)
deleteCascade(sortedFiltered, i, initialAdvance, useAnchor, st) ==
  IF i > Len(sortedFiltered) THEN sortedFiltered
  ELSE IF sortedFiltered[i].isInitialAdvance
    THEN deleteCascade(sortedFiltered, i + 1, initialAdvance, useAnchor, st)
    ELSE deleteCascade(
           [sortedFiltered EXCEPT ![i].remaining =
              calculateRemaining(
                deleteStart(sortedFiltered, i, initialAdvance, useAnchor, st),
                sortedFiltered[i].advanceUsed,
                sortedFiltered[i].totalEarnings)],
           i + 1, initialAdvance, useAnchor, st)

\* One pass of the loop body of lines 310-354.
deleteIteration(sortedFiltered, i, initialAdvance, useAnchor, st) ==
  IF sortedFiltered[i].isInitialAdvance
    THEN sortedFiltered
    ELSE [sortedFiltered EXCEPT ![i].remaining =
            calculateRemaining(
              deleteStart(sortedFiltered, i, initialAdvance, useAnchor, st),
              sortedFiltered[i].advanceUsed,
              sortedFiltered[i].totalEarnings)]

\* A deleteRecord that removes the record and writes without recomputing.
deleteRecord_noRecompute(stored, id, st) ==
  [res |-> "ok",
   store |-> sortAsc(SelectSeq(listRecords(stored), LAMBDA r : r.id # id))]

deleteRecord(stored, id, st) ==
  LET records == listRecords(stored)
      filtered == SelectSeq(records, LAMBDA r : r.id # id)
      sortedFiltered == sortAsc(filtered)
      initialAdvance == getInitialAdvanceRecord(stored)
      useAnchor == initialAdvance # <<>> /\ ~isDeletedInitialAdvance(records, id)
  IN [res |-> "ok",
      store |-> deleteCascade(sortedFiltered, 1, initialAdvance, useAnchor, st)]

(***************************************************************************)
(* createInitialAdvanceRecord                                              *)
(***************************************************************************)
\* An existence check that never finds the anchor.
hasInitialAdvance_never(records) == FALSE

hasInitialAdvance(records) ==
  \E i \in 1..Len(records) : records[i].isInitialAdvance

\* A createInitialAdvanceRecord that checks for an anchor only after it has
\* written the new one.
createInitialAdvanceRecord_lateCheck(stored, advanceAmount, date, id) ==
  LET records == listRecords(stored)
      written == Append(records,
                        [id |-> id,
                         date |-> date,
                         basePay |-> 0,
                         bookings |-> 0,
                         bookingPay |-> 0,
                         inquiryPay |-> 0,
                         totalEarnings |-> 0,
                         advanceUsed |-> 0,
                         remaining |-> advanceAmount,
                         notes |-> "Initial Advance Amount",
                         isInitialAdvance |-> TRUE])
  IN [res |-> IF hasInitialAdvance(records) THEN "AnchorExists" ELSE "ok",
      store |-> written]

\* Lines 389-403: the anchor record.
initialAdvanceRecordOf(advanceAmount, date, id) ==
  [id |-> id,
   date |-> date,
   basePay |-> 0,
   bookings |-> 0,
   bookingPay |-> 0,
   inquiryPay |-> 0,
   totalEarnings |-> 0,
   advanceUsed |-> 0,
   remaining |-> advanceAmount,
   notes |-> "Initial Advance Amount",
   isInitialAdvance |-> TRUE]

createInitialAdvanceRecord_rebasing(stored, advanceAmount, date, id) ==
  LET records == listRecords(stored)
      rebased == [i \in 1..Len(records) |->
                    [records[i] EXCEPT !.remaining =
                       calculateRemaining(advanceAmount, records[i].advanceUsed,
                                          records[i].totalEarnings)]]
  IN IF hasInitialAdvance(records)
       THEN [res |-> "AnchorExists", store |-> stored]
       ELSE [res |-> "ok",
             store |-> Append(rebased,
                              [id |-> id,
                               date |-> date,
                               basePay |-> 0,
                               bookings |-> 0,
                               bookingPay |-> 0,
                               inquiryPay |-> 0,
                               totalEarnings |-> 0,
                               advanceUsed |-> 0,
                               remaining |-> advanceAmount,
                               notes |-> "Initial Advance Amount",
                               isInitialAdvance |-> TRUE])]

createInitialAdvanceRecord(stored, advanceAmount, date, id) ==
  LET records == listRecords(stored)
  IN IF hasInitialAdvance(records)
       THEN [res |-> "AnchorExists", store |-> stored]
       ELSE [res |-> "ok",
             store |-> Append(records,
                              initialAdvanceRecordOf(advanceAmount, date, id))]

(***************************************************************************)
(* The store as a state machine: one action per operation, each a whole    *)
(* call.  lastOp records the last call: the operation, the id it was about *)
(* (the new id for a creation), its outcome, whether that id was in the    *)
(* store before the call and was the anchor, and the kind of patch an      *)
(* update was given.  ops counts the calls made, up to MaxOps.             *)
(***************************************************************************)
Ids == 1..MaxId

idsOf(s) == {s[i].id : i \in 1..Len(s)}

recordOf(s, id) == s[findIndex(s, id)]

targetIsAnchor(s, id) == id \in idsOf(s) /\ recordOf(s, id).isInitialAdvance

\* "date": the patch defines date; "amounts": it defines totalEarnings or
\* advanceUsed but not date; "plain": it defines neither (notes at most).
patchKind(patch) ==
  IF "date" \in DOMAIN patch THEN "date"
  ELSE IF isFinancial(patch) THEN "amounts"
  ELSE "plain"

\* What listRecords parses out of the stored text: its catch block turns a
\* text JSON.parse rejects into the empty array.
parsed == IF readable THEN store ELSE <<>>

\* The callers of the store (event handlers of the page) and a call that
\* is not in flight.
Callers == {1, 2}

Idle ==
  [pc |-> "idle", op |-> "none", id |-> 0, arg |-> <<>>, records |-> <<>>,
   initialAdvance |-> <<>>, useAnchor |-> FALSE, sortedRecords |-> <<>>, i |-> 0]

\* The call reached its setItem: it returned normally, or the array it
\* hands back is not the one it read.
didWrite(out) == out.res = "ok" \/ out.store # parsed

Init ==
  /\ store = <<>>
  /\ readable = TRUE
  /\ calls = [c \in Callers |-> Idle]
  /\ settings \in {[advanceBalance |-> b] : b \in AdvanceBalances}
  /\ nextId = 1
  /\ ops = 0
  /\ lastOp = [op |-> "init", id |-> 0, res |-> "ok", found |-> FALSE,
               anchor |-> FALSE, patch |-> "none"]

AddRecord ==
  /\ ops < MaxOps
  /\ nextId <= MaxId
  /\ \E record \in Drafts :
       store' = saveRecord(parsed, record, settings, generateId(nextId))
  /\ readable' = TRUE
  /\ nextId' = nextId + 1
  /\ ops' = ops + 1
  /\ lastOp' = [op |-> "add", id |-> nextId, res |-> "ok", found |-> FALSE,
                anchor |-> FALSE, patch |-> "none"]
  /\ UNCHANGED <<settings, calls>>

UpdateRecord ==
  /\ ops < MaxOps
  /\ \E id \in Ids, patch \in Patches :
       LET out == updateRecord(parsed, id, patch, settings)
       IN /\ IF didWrite(out)
               THEN store' = out.store /\ readable' = TRUE
               ELSE UNCHANGED <<store, readable>>
          /\ lastOp' = [op |-> "update", id |-> id, res |-> out.res,
                        found |-> id \in idsOf(parsed),
                        anchor |-> targetIsAnchor(parsed, id),
                        patch |-> patchKind(patch)]
  /\ ops' = ops + 1
  /\ UNCHANGED <<settings, nextId, calls>>

DeleteRecord ==
  /\ ops < MaxOps
  /\ \E id \in Ids :
       LET out == deleteRecord(parsed, id, settings)
       IN /\ store' = out.store
          /\ readable' = TRUE
          /\ lastOp' = [op |-> "delete", id |-> id, res |-> out.res,
                        found |-> id \in idsOf(parsed),
                        anchor |-> targetIsAnchor(parsed, id), patch |-> "none"]
  /\ ops' = ops + 1
  /\ UNCHANGED <<settings, nextId, calls>>

CreateAnchor ==
  /\ ops < MaxOps
  /\ nextId <= MaxId
  /\ \E amount \in AnchorAmounts, d \in Dates :
       LET out == createInitialAdvanceRecord(parsed, amount, d, generateId(nextId))
       IN /\ IF didWrite(out)
               THEN store' = out.store /\ readable' = TRUE
               ELSE UNCHANGED <<store, readable>>
          /\ lastOp' = [op |-> "createAnchor", id |-> nextId, res |-> out.res,
                        found |-> FALSE, anchor |-> FALSE, patch |-> "none"]
  /\ nextId' = nextId + 1
  /\ ops' = ops + 1
  /\ UNCHANGED <<settings, calls>>

Next == AddRecord \/ UpdateRecord \/ DeleteRecord \/ CreateAnchor

Spec == Init /\ [][Next]_vars

(***************************************************************************)
(* The store with its read operation as a call of its own (the table and   *)
(* the charts make it): listRecords reads and sorts a parsed copy and      *)
(* writes nothing.                                                         *)
(***************************************************************************)
ListRecords ==
  /\ lastOp' = [op |-> "list", id |-> 0, res |-> "ok", found |-> FALSE,
                anchor |-> FALSE, patch |-> "none"]
  /\ UNCHANGED <<store, settings, nextId, ops, readable, calls>>

NextReads == Next \/ ListRecords

SpecReads == Init /\ [][NextReads]_vars

(***************************************************************************)
(* The same store with a fault of its surroundings: localStorage is shared *)
(* by every script of the origin and by the user's tools, so the text      *)
(* under the records key can become one JSON.parse rejects.                *)
(***************************************************************************)
Corrupt ==
  /\ readable
  /\ store # <<>>
  /\ readable' = FALSE
  /\ UNCHANGED <<store, settings, nextId, ops, lastOp, calls>>

NextFaults == Next \/ Corrupt

SpecFaults == Init /\ [][NextFaults]_vars

(***************************************************************************)
(* The operations step by step.  Each is an async function: it runs up to  *)
(* an await, gives way, and runs on.  A call in flight keeps what it has   *)
(* read and computed so far in calls[c]: records (the array listRecords    *)
(* returned), initialAdvance (what getInitialAdvanceRecord returned),      *)
(* sortedRecords and i (the array and the index of a cascade loop).        *)
(* localStorage.getItem and setItem can throw (access denied, quota        *)
(* exceeded); no operation catches, so a call in flight can end with that  *)
(* failure at any of its steps.                                            *)
(***************************************************************************)
CallDrafts == {draftOf(d, 150) : d \in Dates}

CallPatches == {[totalEarnings |-> 200], [date |-> 1], [notes |-> "edited"]}

\* The loop condition of the cascades (i < sortedRecords.length) is false;
\* setItem follows the loop.
cascadeDone_early(sortedRecords, i) == TRUE

cascadeDone(sortedRecords, i) == i > Len(sortedRecords)

\* The call c ends: with a write of the array `written`, or without one.
Returns(c, res, found, anchor, patch) ==
  /\ calls' = [calls EXCEPT ![c] = Idle]
  /\ lastOp' = [op |-> calls[c].op, id |-> calls[c].id, res |-> res,
                found |-> found, anchor |-> anchor, patch |-> patch]

Writes(written) ==
  /\ store' = written
  /\ readable' = TRUE

\* The call and its first statement, records = await listRecords().
BeginAdd(c) ==
  /\ calls[c].pc = "idle"
  /\ ops < MaxOps
  /\ nextId <= MaxId
  /\ \E record \in CallDrafts :
       calls' = [calls EXCEPT ![c] =
                   [Idle EXCEPT !.pc = "listed", !.op = "add",
                                !.id = generateId(nextId), !.arg = <<record>>,
                                !.records = listRecords(parsed)]]
  /\ nextId' = nextId + 1
  /\ ops' = ops + 1
  /\ UNCHANGED <<store, settings, lastOp, readable>>

BeginUpdate(c) ==
  /\ calls[c].pc = "idle"
  /\ ops < MaxOps
  /\ \E id \in Ids, patch \in CallPatches :
       calls' = [calls EXCEPT ![c] =
                   [Idle EXCEPT !.pc = "listed", !.op = "update", !.id = id,
                                !.arg = <<patch>>,
                                !.records = listRecords(parsed)]]
  /\ ops' = ops + 1
  /\ UNCHANGED <<store, settings, nextId, lastOp, readable>>

BeginDelete(c) ==
  /\ calls[c].pc = "idle"
  /\ ops < MaxOps
  /\ \E id \in Ids :
       calls' = [calls EXCEPT ![c] =
                   [Idle EXCEPT !.pc = "listed", !.op = "delete", !.id = id,
                                !.records = listRecords(parsed)]]
  /\ ops' = ops + 1
  /\ UNCHANGED <<store, settings, nextId, lastOp, readable>>

BeginCreateAnchor(c) ==
  /\ calls[c].pc = "idle"
  /\ ops < MaxOps
  /\ nextId <= MaxId
  /\ \E amount \in AnchorAmounts, d \in Dates :
       calls' = [calls EXCEPT ![c] =
                   [Idle EXCEPT !.pc = "listed", !.op = "createAnchor",
                                !.id = generateId(nextId),
                                !.arg = <<[amount |-> amount, date |-> d]>>,
                                !.records = listRecords(parsed)]]
  /\ nextId' = nextId + 1
  /\ ops' = ops + 1
  /\ UNCHANGED <<store, settings, lastOp, readable>>

\* saveRecord after listRecords: initialAdvance = await
\* getInitialAdvanceRecord(), which reads the stored text again.
AddReadsAnchor(c) ==
  /\ calls[c].pc = "listed"
  /\ calls[c].op = "add"
  /\ calls' = [calls EXCEPT ![c].pc = "resolved",
                            ![c].initialAdvance = getInitialAdvanceRecord(parsed)]
  /\ UNCHANGED <<store, settings, nextId, ops, lastOp, readable>>

\* A saveRecord that writes the new record alone instead of the array it
\* pushed it onto.
AddWrites_newOnly(c) ==
  /\ calls[c].pc = "resolved"
  /\ calls[c].op = "add"
  /\ Writes(<<newRecordOf(calls[c].records, calls[c].initialAdvance,
                          calls[c].arg[1], settings, calls[c].id)>>)
  /\ Returns(c, "ok", FALSE, FALSE, "none")
  /\ UNCHANGED <<settings, nextId, ops>>

\* saveRecord's last stretch: the starting balance, the new record, push
\* and setItem.
AddWrites(c) ==
  /\ calls[c].pc = "resolved"
  /\ calls[c].op = "add"
  /\ Writes(Append(calls[c].records,
                   newRecordOf(calls[c].records, calls[c].initialAdvance,
                               calls[c].arg[1], settings, calls[c].id)))
  /\ Returns(c, "ok", FALSE, FALSE, "none")
  /\ UNCHANGED <<settings, nextId, ops>>

\* updateRecord after listRecords: 'Record not found', or the write of the
\* merged record when the patch is not financial, or the sorted copy, the
\* read of the anchor and the entry into the loop.
UpdateLooksUp(c) ==
  /\ calls[c].pc = "listed"
  /\ calls[c].op = "update"
  /\ LET records == calls[c].records
         id == calls[c].id
         patch == calls[c].arg[1]
         index == findIndex(records, id)
         found == index # 0
         anchor == targetIsAnchor(records, id)
     IN IF ~found
          THEN /\ Returns(c, "NotFound", found, anchor, patchKind(patch))
               /\ UNCHANGED <<store, readable>>
          ELSE LET updated == mergePatch(records[index], patch)
               IN IF ~isFinancial(patch)
                    THEN /\ Writes([records EXCEPT ![index] = updated])
                         /\ Returns(c, "ok", found, anchor, patchKind(patch))
                    ELSE LET sortedRecords ==
                               sortAsc([records EXCEPT ![index] = updated])
                         IN /\ calls' =
                                 [calls EXCEPT
                                    ![c].pc = "loop",
                                    ![c].sortedRecords = sortedRecords,
                                    ![c].i = findIndex(sortedRecords, id),
                                    ![c].initialAdvance =
                                       getInitialAdvanceRecord(parsed)]
                            /\ UNCHANGED <<store, readable, lastOp>>
  /\ UNCHANGED <<settings, nextId, ops>>

\* deleteRecord after listRecords: filter, sort, the read of the anchor and
\* the entry into the loop at index 0 (1 here).
DeleteFilters(c) ==
  /\ calls[c].pc = "listed"
  /\ calls[c].op = "delete"
  /\ LET records == calls[c].records
         id == calls[c].id
         initialAdvance == getInitialAdvanceRecord(parsed)
     IN calls' = [calls EXCEPT
                    ![c].pc = "loop",
                    ![c].sortedRecords =
                       sortAsc(SelectSeq(records, LAMBDA r : r.id # id)),
                    ![c].i = 1,
                    ![c].initialAdvance = initialAdvance,
                    ![c].useAnchor = initialAdvance # <<>>
                                       /\ ~isDeletedInitialAdvance(records, id)]
  /\ UNCHANGED <<store, settings, nextId, ops, lastOp, readable>>

\* A createInitialAdvanceRecord that checks the array it read but pushes
\* onto the array stored at the time of its write.
CreateAnchorChecks_rereading(c) ==
  /\ calls[c].pc = "listed"
  /\ calls[c].op = "createAnchor"
  /\ IF hasInitialAdvance(calls[c].records)
       THEN /\ Returns(c, "AnchorExists", FALSE, FALSE, "none")
            /\ UNCHANGED <<store, readable>>
       ELSE /\ Writes(Append(listRecords(parsed),
                             initialAdvanceRecordOf(calls[c].arg[1].amount,
                                                    calls[c].arg[1].date,
                                                    calls[c].id)))
            /\ Returns(c, "ok", FALSE, FALSE, "none")
  /\ UNCHANGED <<settings, nextId, ops>>

\* createInitialAdvanceRecord after listRecords: the existence check, then
\* push and setItem.
CreateAnchorChecks(c) ==
  /\ calls[c].pc = "listed"
  /\ calls[c].op = "createAnchor"
  /\ IF hasInitialAdvance(calls[c].records)
       THEN /\ Returns(c, "AnchorExists", FALSE, FALSE, "none")
            /\ UNCHANGED <<store, readable>>
       ELSE /\ Writes(Append(calls[c].records,
                             initialAdvanceRecordOf(calls[c].arg[1].amount,
                                                    calls[c].arg[1].date,
                                                    calls[c].id)))
            /\ Returns(c, "ok", FALSE, FALSE, "none")
  /\ UNCHANGED <<settings, nextId, ops>>

\* One pass of a cascade loop: it changes the in-memory array only.
CascadeStep(c) ==
  /\ calls[c].pc = "loop"
  /\ ~cascadeDone(calls[c].sortedRecords, calls[c].i)
  /\ calls' =
       [calls EXCEPT
          ![c].sortedRecords =
             IF calls[c].op = "update"
               THEN updateIteration(@, calls[c].i, calls[c].initialAdvance,
                                    settings)
               ELSE deleteIteration(@, calls[c].i, calls[c].initialAdvance,
                                    calls[c].useAnchor, settings),
          ![c].i = @ + 1]
  /\ UNCHANGED <<store, settings, nextId, ops, lastOp, readable>>

\* The setItem after the loop.
CascadeWrites(c) ==
  /\ calls[c].pc = "loop"
  /\ cascadeDone(calls[c].sortedRecords, calls[c].i)
  /\ Writes(calls[c].sortedRecords)
  /\ Returns(c, "ok", calls[c].id \in idsOf(calls[c].records),
             targetIsAnchor(calls[c].records, calls[c].id),
             IF calls[c].op = "update" THEN patchKind(calls[c].arg[1]) ELSE "none")
  /\ UNCHANGED <<settings, nextId, ops>>

\* A storage access of the call throws; the call rejects.
Throws(c) ==
  /\ calls[c].pc # "idle"
  /\ Returns(c, "BackendError", calls[c].id \in idsOf(calls[c].records),
             targetIsAnchor(calls[c].records, calls[c].id),
             IF calls[c].op = "update" THEN patchKind(calls[c].arg[1]) ELSE "none")
  /\ UNCHANGED <<store, settings, nextId, ops, readable>>

\* One caller: the next call begins when the last one has returned.
NextSteps ==
  \/ BeginAdd(1)
  \/ BeginUpdate(1)
  \/ BeginDelete(1)
  \/ BeginCreateAnchor(1)
  \/ AddReadsAnchor(1)
  \/ AddWrites(1)
  \/ UpdateLooksUp(1)
  \/ DeleteFilters(1)
  \/ CreateAnchorChecks(1)
  \/ CascadeStep(1)
  \/ CascadeWrites(1)
  \/ Throws(1)

SpecSteps == Init /\ [][NextSteps]_vars

\* Two callers: a second call can begin while the first is at an await
\* (nothing in the module serializes the calls; the storage accesses
\* succeed).
NextOverlap ==
  \E c \in Callers :
    \/ BeginAdd(c)
    \/ BeginUpdate(c)
    \/ BeginDelete(c)
    \/ BeginCreateAnchor(c)
    \/ AddReadsAnchor(c)
    \/ AddWrites(c)
    \/ UpdateLooksUp(c)
    \/ DeleteFilters(c)
    \/ CreateAnchorChecks(c)
    \/ CascadeStep(c)
    \/ CascadeWrites(c)

SpecOverlap == Init /\ [][NextOverlap]_vars

(***************************************************************************)
(* The functions of calculations.ts called on their own.  lastOp holds the *)
(* last call: the function, its numeric arguments (nums), the string it    *)
(* was given or returned (text) and its numeric result.  A parseCurrency   *)
(* call is given a literal string, or the string the formatCurrency call   *)
(* before it returned; it then keeps that call's amount in nums.           *)
(***************************************************************************)
Balances == {-1000, -500, 0, 100, 500, 1000, 2000}
AdvancesUsedToday == {0, 100, 200, 500}
EarnedToday == {0, 200, 300, 500, 600}

BookingCounts == -3..5
BookingRates == {<<>>, <<0>>, <<50>>, <<75>>, <<100>>}

Amounts == {0, 1, 99, 10000, 50050, 100050, 9999999, -1, -50000, -100050}

CurrencyStrings ==
  {<<"1", "0", "0", "0", ".", "0", "0">>,
   <<"U+20B1", " ", "5", "0", "0", " ", ".", " ", "5", "0">>,
   <<"a", "b", "c">>,
   <<>>}

InitPure ==
  /\ store = <<>>
  /\ readable = TRUE
  /\ calls = [c \in Callers |-> Idle]
  /\ settings = [advanceBalance |-> 0]
  /\ nextId = 1
  /\ ops = 0
  /\ lastOp = [op |-> "none", nums |-> <<>>, text |-> <<>>, result |-> 0]

CalculateRemaining ==
  /\ \E p \in Balances, a \in AdvancesUsedToday, e \in EarnedToday :
       lastOp' = [op |-> "calculateRemaining", nums |-> <<p, a, e>>,
                  text |-> <<>>, result |-> calculateRemaining(p, a, e)]
  /\ UNCHANGED <<store, settings, nextId, ops, readable, calls>>

CalculateBookingPay ==
  /\ \E b \in BookingCounts, r \in BookingRates :
       lastOp' = [op |-> "calculateBookingPay", nums |-> <<b>> \o r,
                  text |-> <<>>, result |-> calculateBookingPay(b, r)]
  /\ UNCHANGED <<store, settings, nextId, ops, readable, calls>>

FormatCurrency ==
  /\ \E amount \in Amounts :
       lastOp' = [op |-> "formatCurrency", nums |-> <<amount>>,
                  text |-> formatCurrency(amount), result |-> 0]
  /\ UNCHANGED <<store, settings, nextId, ops, readable, calls>>

ParseCurrency ==
  /\ \/ /\ lastOp.op = "formatCurrency"
        /\ lastOp' = [op |-> "parseCurrency", nums |-> lastOp.nums,
                      text |-> lastOp.text,
                      result |-> parseCurrency(lastOp.text)]
     \/ \E str \in CurrencyStrings :
          lastOp' = [op |-> "parseCurrency", nums |-> <<>>, text |-> str,
                     result |-> parseCurrency(str)]
  /\ UNCHANGED <<store, settings, nextId, ops, readable, calls>>

NextPure ==
  CalculateRemaining \/ CalculateBookingPay \/ FormatCurrency \/ ParseCurrency

SpecPure == InitPure /\ [][NextPure]_vars

(***************************************************************************)
(* The ledger chain the store is meant to keep, stated on a record array   *)
(* by position and independently of the operations above.  Record i comes  *)
(* before record j in ascending date order when its date is earlier, or    *)
(* equal and i is stored first.  The starting balance of a non-anchor      *)
(* record is the anchor's remaining when its date is on or before the      *)
(* anchor's date, else the remaining of the record immediately before it,  *)
(* else Settings.advanceBalance.                                           *)
(***************************************************************************)
Precedes(s, i, j) ==
  \/ s[i].date < s[j].date
  \/ (s[i].date = s[j].date /\ i < j)

HasPredecessor(s, j) == \E i \in 1..Len(s) : Precedes(s, i, j)

Predecessor(s, j) ==
  CHOOSE i \in 1..Len(s) :
    /\ Precedes(s, i, j)
    /\ \A k \in 1..Len(s) : Precedes(s, k, j) => (k = i \/ Precedes(s, k, i))

AnchorIndexes(s) == {i \in 1..Len(s) : s[i].isInitialAdvance}

StartingBalance(s, j, st) ==
  IF \E a \in AnchorIndexes(s) : s[j].date <= s[a].date
    THEN s[CHOOSE a \in AnchorIndexes(s) : s[j].date <= s[a].date].remaining
    ELSE IF HasPredecessor(s, j)
      THEN s[Predecessor(s, j)].remaining
      ELSE st.advanceBalance

Chained(s, j, st) ==
  s[j].remaining = calculateRemaining(StartingBalance(s, j, st),
                                      s[j].advanceUsed, s[j].totalEarnings)

NonAnchors(s) == {j \in 1..Len(s) : ~s[j].isInitialAdvance}

recordsOf(s) == {s[i] : i \in 1..Len(s)}

\* The starting-balance resolution read with "strictly before the target
\* date": rule 1 as above, else the remaining of a non-anchor record with
\* the greatest date strictly before the record's date, else the anchor's
\* remaining, else Settings.advanceBalance.
EarlierDated(s, j) == {i \in NonAnchors(s) : s[i].date < s[j].date}

LatestEarlier(s, j) ==
  {i \in EarlierDated(s, j) : \A k \in EarlierDated(s, j) : s[k].date <= s[i].date}

ResolutionStarts(s, j, st) ==
  IF \E a \in AnchorIndexes(s) : s[j].date <= s[a].date
    THEN {s[a].remaining : a \in AnchorIndexes(s)}
    ELSE IF LatestEarlier(s, j) # {}
      THEN {s[i].remaining : i \in LatestEarlier(s, j)}
      ELSE IF AnchorIndexes(s) # {}
        THEN {s[a].remaining : a \in AnchorIndexes(s)}
        ELSE {st.advanceBalance}

\* Record j is consistent with the chain under either reading of the
\* predecessor of a record that shares its date with another.
ChainedEitherWay(s, j, st) ==
  \/ Chained(s, j, st)
  \/ \E b \in ResolutionStarts(s, j, st) :
       s[j].remaining = calculateRemaining(b, s[j].advanceUsed, s[j].totalEarnings)

Consistent(s, st) == \A j \in NonAnchors(s) : ChainedEitherWay(s, j, st)

\* C1: after any sequence of addRecord, updateRecord, deleteRecord and
\* createAnchor calls, every non-anchor record's stored remaining equals
\* balanceDelta applied to the remaining of its predecessor in ascending
\* date order (recomputing from scratch reproduces every stored value).
\* Stated so that either reading of the predecessor of same-date records
\* satisfies it.
C1_Convergence == Consistent(store, settings)

\* C2: in every reachable state at most one stored record has
\* isInitialAdvance = true.
C2_AtMostOneAnchor == Cardinality(AnchorIndexes(store)) <= 1

C2_Witness ==
  /\ lastOp.op = "createAnchor"
  /\ lastOp.res = "AnchorExists"
  /\ Cardinality(AnchorIndexes(store)) = 1

\* C3: a createAnchor call made while an anchor exists fails with the
\* anchor-exists error and leaves the stored array, the anchor in it
\* included, exactly as it was.
C3_AnchorExclusive ==
  [][(lastOp'.op = "createAnchor" /\ AnchorIndexes(store) # {})
       => (lastOp'.res = "AnchorExists" /\ store' = store)]_vars

C3_Witness ==
  /\ lastOp.op = "createAnchor"
  /\ lastOp.res = "AnchorExists"
  /\ AnchorIndexes(store) # {}
  /\ NonAnchors(store) # {}

\* C4: a deleteRecord call with an id that is not in the store fails with
\* a not-found error and leaves the stored records, every remaining
\* included, exactly as they were.
C4_DeleteMissingFails ==
  [][(lastOp'.op = "delete" /\ lastOp'.id \notin idsOf(store))
       => (/\ lastOp'.res = "NotFound"
           /\ recordsOf(store') = recordsOf(store))]_vars

\* C5: an updateRecord call with an id that is not in the store fails with
\* a not-found error and writes nothing.
C5_UpdateMissingFails ==
  [][(lastOp'.op = "update" /\ lastOp'.id \notin idsOf(store))
       => (lastOp'.res = "NotFound" /\ store' = store)]_vars

C5_Witness ==
  /\ lastOp.op = "update"
  /\ lastOp.res = "NotFound"
  /\ ~lastOp.found
  /\ Len(store) >= 2

\* The position in s of the record with the given id.
At(s, id) == CHOOSE j \in 1..Len(s) : s[j].id = id

\* The concrete ledger of the cascade scenarios: anchor 1000 on day 1, A on
\* day 2 earning 200, B on day 3 earning 150.
ScenarioSettings == [advanceBalance |-> 0]

ScenarioDraft(d, e) == draftOf(d, e)

ScenarioAdded ==
  saveRecord(
    saveRecord(createInitialAdvanceRecord(<<>>, 1000, 1, 1).store,
               ScenarioDraft(2, 200), ScenarioSettings, 2),
    ScenarioDraft(3, 150), ScenarioSettings, 3)

ScenarioEdited ==
  updateRecord(ScenarioAdded, 2, [f \in {"totalEarnings"} |-> 300],
               ScenarioSettings).store

ScenarioDeleted == deleteRecord(ScenarioEdited, 2, ScenarioSettings).store

\* C6: after updateRecord patches totalEarnings or advanceUsed of a
\* non-anchor record, that record's remaining is balanceDelta of its
\* predecessor's remaining and so is the remaining of every non-anchor
\* record after it in ascending date order (a patch that also defines date
\* included); in the scenario, editing A's totalEarnings to 300 gives
\* A.remaining = 700 and B.remaining = 550.
C6_UpdateCascade ==
  /\ (lastOp.op = "update" /\ lastOp.res = "ok" /\ ~lastOp.anchor
        /\ lastOp.patch # "plain")
       => \A j \in NonAnchors(store) :
            (j = At(store, lastOp.id) \/ Precedes(store, At(store, lastOp.id), j))
              => Chained(store, j, settings)
  /\ recordOf(ScenarioAdded, 2).remaining = 800
  /\ recordOf(ScenarioAdded, 3).remaining = 650
  /\ recordOf(ScenarioEdited, 2).remaining = 700
  /\ recordOf(ScenarioEdited, 3).remaining = 550

C6_Witness ==
  /\ lastOp.op = "update"
  /\ lastOp.res = "ok"
  /\ ~lastOp.anchor
  /\ lastOp.patch = "amounts"
  /\ \E j \in NonAnchors(store) : Precedes(store, At(store, lastOp.id), j)

\* C7: after deleteRecord removes an existing non-anchor record, the record
\* is gone and every non-anchor record left (those that were after it
\* included) has remaining = balanceDelta of the remaining of the record now
\* immediately before it, of the anchor, or of Settings.advanceBalance when
\* nothing precedes it; in the scenario, deleting A gives B.remaining = 850.
C7_DeleteCascade ==
  /\ (lastOp.op = "delete" /\ lastOp.found /\ ~lastOp.anchor)
       => /\ lastOp.id \notin idsOf(store)
          /\ \A j \in NonAnchors(store) : Chained(store, j, settings)
  /\ idsOf(ScenarioDeleted) = {1, 3}
  /\ recordOf(ScenarioDeleted, 3).remaining = 850

C7_Witness ==
  /\ lastOp.op = "delete"
  /\ lastOp.found
  /\ ~lastOp.anchor
  /\ NonAnchors(store) # {}

C9_InsertKeepsConsistent ==
  [][(lastOp'.op = "add" /\ Consistent(store, settings))
       => \A j \in NonAnchors(store') :
            store'[j].date > recordOf(store', lastOp'.id).date
              => ChainedEitherWay(store', j, settings')]_vars

\* C10: when an anchor exists and the draft's date is on or before the
\* anchor's date, addRecord stores remaining = balanceDelta(anchor.remaining,
\* draft.advanceUsed, draft.totalEarnings), whether or not earlier non-anchor
\* records exist.
C10_AddOnOrBeforeAnchor ==
  lastOp.op = "add"
    => LET r == recordOf(store, lastOp.id)
       IN \A a \in AnchorIndexes(store) :
            r.date <= store[a].date
              => r.remaining = calculateRemaining(store[a].remaining,
                                                  r.advanceUsed, r.totalEarnings)

\* Rule 1 of the starting-balance resolution applies to record j: an anchor
\* exists and j's date is on or before the anchor's date.
RuleOneApplies(s, j) == \E a \in AnchorIndexes(s) : s[j].date <= s[a].date

\* Of the non-anchor records with the greatest date strictly before j's date,
\* the one inserted last (ids are handed out in insertion order).
MostRecentlyInserted(s, j) ==
  CHOOSE i \in LatestEarlier(s, j) :
    \A k \in LatestEarlier(s, j) : s[k].id <= s[i].id

\* C11: when rule 1 does not apply and at least one non-anchor record has a
\* date strictly before the draft's date, addRecord computes the new
\* record's remaining from the remaining of the record with the greatest
\* such date, and among several records of that date from the most recently
\* inserted one.
C11_AddFromLatestEarlier ==
  lastOp.op = "add"
    => LET j == findIndex(store, lastOp.id)
       IN (~RuleOneApplies(store, j) /\ LatestEarlier(store, j) # {})
            => store[j].remaining =
                 calculateRemaining(store[MostRecentlyInserted(store, j)].remaining,
                                    store[j].advanceUsed, store[j].totalEarnings)

\* C12: when no anchor exists and no stored record has a date strictly
\* before the draft's date, addRecord stores
\* remaining = balanceDelta(Settings.advanceBalance, draft.advanceUsed,
\* draft.totalEarnings); with advanceBalance 500, totalEarnings 100 and
\* advanceUsed 0 the stored remaining is 400.
C12_NoAnchorFallback ==
  /\ lastOp.op = "add"
       => LET j == findIndex(store, lastOp.id)
          IN (AnchorIndexes(store) = {} /\ EarlierDated(store, j) = {})
               => store[j].remaining =
                    calculateRemaining(settings.advanceBalance,
                                       store[j].advanceUsed,
                                       store[j].totalEarnings)
  /\ saveRecord(<<>>, draftOf(1, 100), [advanceBalance |-> 500], 1)[1].remaining
       = 400

C12_Witness ==
  /\ lastOp.op = "add"
  /\ AnchorIndexes(store) = {}
  /\ EarlierDated(store, findIndex(store, lastOp.id)) = {}
  /\ settings.advanceBalance = 500
  /\ Len(store) >= 2

\* The stored sequence s without its j-th record.
Without(s, j) == [i \in 1..(Len(s) - 1) |-> IF i < j THEN s[i] ELSE s[i + 1]]

\* The remaining addRecord assigns to a draft with the values of s[j] added
\* to the store s without s[j].
AddWouldAssign(s, j, st) ==
  LET written == saveRecord(Without(s, j), s[j], st, s[j].id)
  IN written[Len(written)].remaining

\* The records whose remaining the last operation's cascade assigned: all
\* non-anchor records after a delete, the target and the records after it in
\* ascending date order after an update (the cascades write the ascending
\* array).
CascadeRan ==
  /\ lastOp.res = "ok"
  /\ \/ lastOp.op = "delete"
     \/ (lastOp.op = "update" /\ lastOp.patch # "plain")

Cascaded ==
  IF lastOp.op = "delete"
    THEN NonAnchors(store)
    ELSE {j \in NonAnchors(store) : j >= findIndex(store, lastOp.id)}

\* C13: the remaining that the updateRecord or deleteRecord cascade assigns
\* to a non-anchor record r equals the remaining addRecord would assign to a
\* draft with r's date, advanceUsed and totalEarnings added to the same
\* store without r.
C13_SameResolution ==
  CascadeRan
    => \A j \in Cascaded :
         store[j].remaining = AddWouldAssign(store, j, settings)

\* C14: addRecord does not cascade: it appends exactly one new record with a
\* fresh id and leaves every field of every previously stored record,
\* remaining included, unchanged.
C14_AddDoesNotCascade ==
  [][lastOp'.op = "add"
       => LET new == store'[Len(store')]
          IN /\ Len(store') = Len(store) + 1
             /\ new.id = lastOp'.id
             /\ new.id \notin idsOf(store)
             /\ recordsOf(store') = recordsOf(store) \cup {new}]_vars

C14_Witness ==
  /\ lastOp.op = "add"
  /\ \E j \in NonAnchors(store) :
       store[j].date > recordOf(store, lastOp.id).date

\* C15: when no anchor exists, createAnchor(amount, date) adds exactly one
\* record, with isInitialAdvance = true, remaining = amount and basePay,
\* bookings, bookingPay, inquiryPay, totalEarnings and advanceUsed all 0,
\* and leaves every existing record, remaining included, unchanged.
C15_CreateAnchorFrame ==
  [][(lastOp'.op = "createAnchor" /\ AnchorIndexes(store) = {})
       => LET new == store'[Len(store')]
          IN /\ lastOp'.res = "ok"
             /\ Len(store') = Len(store) + 1
             /\ recordsOf(store') = recordsOf(store) \cup {new}
             /\ new.id \notin idsOf(store)
             /\ new.isInitialAdvance
             /\ new.remaining \in AnchorAmounts
             /\ new.basePay = 0
             /\ new.bookings = 0
             /\ new.bookingPay = 0
             /\ new.inquiryPay = 0
             /\ new.totalEarnings = 0
             /\ new.advanceUsed = 0]_vars

C15_Witness ==
  /\ lastOp.op = "createAnchor"
  /\ lastOp.res = "ok"
  /\ Len(store) >= 3

\* C16: the anchor's remaining is never recomputed: an addRecord call, and
\* an updateRecord or deleteRecord call whose target is a non-anchor
\* record, leaves the anchor in the store with the remaining it had, which
\* is the amount createAnchor was given.
C16_AnchorRemainingKept ==
  [][(/\ AnchorIndexes(store) # {}
      /\ lastOp'.op \in {"add", "update", "delete"}
      /\ ~lastOp'.anchor)
       => /\ {store'[a].remaining : a \in AnchorIndexes(store')}
               = {store[a].remaining : a \in AnchorIndexes(store)}
          /\ \A a \in AnchorIndexes(store') : store'[a].remaining \in AnchorAmounts]_vars

C16_Witness ==
  /\ lastOp.op = "update"
  /\ lastOp.res = "ok"
  /\ lastOp.patch # "plain"
  /\ ~lastOp.anchor
  /\ \E a \in AnchorIndexes(store) : findIndex(store, lastOp.id) < a

\* C17: updateRecord performs the cascade recompute whatever fields the
\* patch contains: also after a patch that changes only notes, the updated
\* record and every non-anchor record after it in ascending date order have
\* remaining = balanceDelta(predecessor's remaining, advanceUsed,
\* totalEarnings).  Stated so that either reading of the predecessor of
\* same-date records satisfies it.
C17_UpdateAlwaysCascades ==
  (lastOp.op = "update" /\ lastOp.res = "ok" /\ lastOp.patch = "plain")
    => LET t == findIndex(store, lastOp.id)
       IN \A j \in NonAnchors(store) :
            (j = t \/ store[j].date > store[t].date)
              => ChainedEitherWay(store, j, settings)

\* The number of positions of the sequence s that hold the record r.
Occurrences(s, r) == Cardinality({i \in 1..Len(s) : s[i] = r})

\* C20: listRecords returns every stored record exactly once, ordered by
\* date descending (for adjacent results x before y, x.date >= y.date), and
\* does not modify the persisted record set.
C20_ListRecords ==
  [][lastOp'.op = "list"
       => LET result == listRecords(store)
          IN /\ store' = store
             /\ Len(result) = Len(store)
             /\ \A i \in 1..Len(store) :
                  /\ Occurrences(store, store[i]) = 1
                  /\ Occurrences(result, store[i]) = 1
             /\ \A i \in 1..(Len(result) - 1) :
                  result[i].date >= result[i + 1].date]_vars

C20_Witness ==
  /\ lastOp.op = "list"
  /\ Len(store) >= 3
  /\ listRecords(store) # store

\* C19: backend failures are propagated, not swallowed: when the stored
\* record set cannot be parsed, a mutating operation reports a backend
\* failure to its caller and performs no write, so the persisted data is
\* not replaced.
C19_ReadFailurePropagates ==
  [][(~readable /\ lastOp'.op \in {"add", "update", "delete", "createAnchor"})
       => /\ lastOp'.res = "BackendError"
          /\ store' = store
          /\ readable' = readable]_vars

\* The array the operation of the call c in flight computes, as a whole,
\* from the store as it is.
WholeResult(c) ==
  CASE calls[c].op = "add" ->
         saveRecord(parsed, calls[c].arg[1], settings, calls[c].id)
    [] calls[c].op = "update" ->
         updateRecord(parsed, calls[c].id, calls[c].arg[1], settings).store
    [] calls[c].op = "delete" ->
         deleteRecord(parsed, calls[c].id, settings).store
    [] calls[c].op = "createAnchor" ->
         createInitialAdvanceRecord(parsed, calls[c].arg[1].amount,
                                    calls[c].arg[1].date, calls[c].id).store

CallEnds(c) == calls[c].pc # "idle" /\ calls'[c].pc = "idle"

\* C18: all-or-nothing writes: the stored record set changes only in the
\* last step of a call, which succeeds, and becomes the whole result of the
\* operation with every remaining computed; a call that fails at any
\* earlier step leaves the stored record set as it was before the call (no
\* partially cascaded state is persisted).
C18_AllOrNothing ==
  [][/\ (store' # store \/ readable' # readable)
          => \E c \in Callers :
               /\ CallEnds(c)
               /\ lastOp'.res = "ok"
               /\ store' = WholeResult(c)
     /\ \A c \in Callers :
          (CallEnds(c) /\ lastOp'.res # "ok")
            => /\ store' = store
               /\ recordsOf(store') = recordsOf(calls[c].records)]_vars

\* A call failed, and the next one is in its cascade loop with an
\* in-memory array whose remaining values differ from the stored ones.
C18_Witness ==
  /\ lastOp.res = "BackendError"
  /\ calls[1].pc = "loop"
  /\ \E j \in 1..Len(calls[1].sortedRecords) :
       LET r == calls[1].sortedRecords[j]
       IN r.remaining # recordOf(store, r.id).remaining

C23_BookingPay ==
  lastOp.op = "calculateBookingPay"
    => LET bookings == lastOp.nums[1]
           perBookingRate == IF Len(lastOp.nums) = 2 THEN lastOp.nums[2] ELSE 50
       IN /\ bookings < 0 => lastOp.result = 0
          /\ bookings >= 0 => lastOp.result = bookings * perBookingRate

C23_Witness ==
  /\ lastOp.op = "calculateBookingPay"
  /\ lastOp.nums = <<-3, 100>>
  /\ lastOp.result = 0

\* C24: for every amount with at most two decimal places (0, 0.01, 100,
\* 1000.50, 99999.99 and negative amounts among them),
\* parseCurrency(formatCurrency(amount)) equals amount to within 0.01 (one
\* centavo), and parseCurrency strips the currency symbol, the thousands
\* separators and the spaces formatCurrency produced.
C24_CurrencyRoundTrip ==
  (lastOp.op = "parseCurrency" /\ lastOp.nums # <<>>)
    => /\ lastOp.result - lastOp.nums[1] \in -1..1
       /\ \A k \in 1..Len(cleanedOf(lastOp.text)) :
            cleanedOf(lastOp.text)[k] \notin {"U+20B1", ",", " "}

\* C25: after updateRecord changes a non-anchor record's date in a
\* consistent ledger, so that the record moves earlier or later in the
\* ascending date order, every non-anchor record's remaining equals
\* balanceDelta applied to the remaining of its predecessor in the new
\* order, the records between the old and the new position included.
\* Stated so that either reading of the predecessor of same-date records
\* satisfies it.
C25_DateEditKeepsConsistent ==
  [][(/\ Consistent(store, settings)
      /\ lastOp'.op = "update"
      /\ lastOp'.res = "ok"
      /\ ~lastOp'.anchor
      /\ lastOp'.patch = "date"
      /\ recordOf(store', lastOp'.id).date # recordOf(store, lastOp'.id).date)
       => Consistent(store', settings')]_vars

\* C26: deleteRecord of an existing non-anchor id recomputes only records
\* after the deleted one: every record that sorts before the deleted
\* record in ascending date order keeps the remaining it had before the
\* call.
C26_DeleteKeepsEarlier ==
  \A id \in idsOf(parsed) :
    ~recordOf(parsed, id).isInitialAdvance
      => LET asc == sortAsc(listRecords(parsed))
             t == findIndex(asc, id)
             after == deleteRecord(parsed, id, settings).store
         IN \A k \in 1..(t - 1) :
              /\ asc[k].id \in idsOf(after)
              /\ recordOf(after, asc[k].id).remaining = asc[k].remaining

\* The call c ends in this step with success, which for add, createAnchor,
\* delete and a found update is the step of its setItem.
WritesAndReturns(c) ==
  /\ calls[c].pc # "idle"
  /\ calls'[c].pc = "idle"
  /\ lastOp'.res = "ok"

\* What the call c read is still what the store holds: no other call has
\* written between c's listRecords and now.
ReadIsCurrent(c) == calls[c].records = listRecords(parsed)

\* C27: overlapping mutations lose updates, serialized ones do not.  A call
\* whose read is still current when it writes loses nothing: every stored
\* record other than the one it deletes is in the store after its write,
\* and so is the record an add or createAnchor creates.  (The reachable
\* loss under overlap is C27_Witness.)
C27_SerializedLosesNothing ==
  [][\A c \in Callers :
       (WritesAndReturns(c) /\ ReadIsCurrent(c))
         => /\ \A id \in idsOf(store) :
                 \/ calls[c].op = "delete" /\ id = calls[c].id
                 \/ id \in idsOf(store')
            /\ calls[c].op \in {"add", "createAnchor"}
                 => calls[c].id \in idsOf(store')]_vars

\* Two calls began on the empty store, each generated an id (add or
\* createAnchor, neither can fail there), both have returned, the later
\* one an add with success, and the store holds that add's record alone:
\* the earlier call's record was overwritten.
C27_Witness ==
  /\ \A c \in Callers : calls[c].pc = "idle"
  /\ ops = 2
  /\ nextId = 3
  /\ lastOp.op = "add"
  /\ lastOp.res = "ok"
  /\ idsOf(store) = {lastOp.id}

\* The ascending order the update and delete cascades work on: the array
\* listRecords returns, sorted ascending by date.
CascadeOrder(s) == sortAsc(listRecords(s))

\* The pairs of ids of same-date records of s, the first before the second
\* in the cascade order.
SameDatePairs(s) ==
  LET asc == CascadeOrder(s)
  IN {<<asc[p[1]].id, asc[p[2]].id>> :
        p \in {q \in (1..Len(asc)) \X (1..Len(asc)) :
                 q[1] < q[2] /\ asc[q[1]].date = asc[q[2]].date}}

AddThenDelete(stored, record, st, id) ==
  deleteRecord(saveRecord(stored, record, st, id), id, st).store

\* C29: add-then-delete is a round trip: for any store, addRecord(draft)
\* followed at once by deleteRecord of the returned id leaves the same set
\* of records, each with the remaining it had before the add.
C29_AddThenDeleteRoundTrip ==
  \A record \in Drafts :
    LET after == AddThenDelete(parsed, record, settings, generateId(nextId))
    IN /\ idsOf(after) = idsOf(parsed)
       /\ \A id \in idsOf(parsed) :
            recordOf(after, id).remaining = recordOf(parsed, id).remaining

\* C30: even when two createAnchor calls overlap (both read the record set
\* before either writes), the stored record set never holds two records
\* with isInitialAdvance = true: each call writes the set it read plus its
\* own anchor.
C30_OverlapKeepsOneAnchor ==
  \A i, j \in 1..Len(store) :
    (store[i].isInitialAdvance /\ store[j].isInitialAdvance) => i = j

\* One createAnchor call has written its anchor and returned while another,
\* which read the record set before that write and found no anchor in it,
\* is about to write.
C30_Witness ==
  /\ lastOp.op = "createAnchor"
  /\ lastOp.res = "ok"
  /\ hasInitialAdvance(store)
  /\ \E c \in Callers :
       /\ calls[c].op = "createAnchor"
       /\ calls[c].pc = "listed"
       /\ ~hasInitialAdvance(calls[c].records)

====
